---- MODULE Spec2Model ----
(***************************************************************************)
(* A model of ScoutSuite's concurrency helpers                             *)
(* (ScoutSuite/providers/utils.py): get_non_provider_id, run_concurrently, *)
(* get_and_set_concurrently and map_concurrently, and of the Cloud SQL     *)
(* facade built on them (ScoutSuite/providers/gcp/facade/cloudsql.py),     *)
(* run by one caller on one asyncio event loop.                            *)
(*                                                                         *)
(* A behaviour is one call of one helper or facade method by a caller      *)
(* coroutine (get_non_provider_id: up to MaxCalls calls).  A coroutine     *)
(* runs without interruption up to its next suspension point (one action)  *)
(* and is resumed by the event loop (another action).  Every task or       *)
(* future scheduled is stepped by the loop / the executor independently    *)
(* of the caller: pending -> running -> ok | failed.  An operation that    *)
(* never terminates is a task that starts in state "hung" and stays        *)
(* there.  GCPFacadeUtils.get_all, the page walker behind get_backups and  *)
(* get_database_instances, is modelled from its specification.             *)
(***************************************************************************)
EXTENDS Naturals, Sequences, FiniteSets

\* Bounds of the model.
MaxEntities == 3
MaxFuncs == 3
MaxTasks == 6
MaxPages == 3
MaxItems == 2
MaxNameLen == 2
MaxCalls == 3

VARIABLES
    op,         \* what the caller invoked: "none", "gs", "map", "offload",
                \* "get_backups", "get_database_instances", "get_users", "hash"
    pc,         \* the caller's position
    entities,   \* the `entities` argument
    funcs,      \* the `get_and_set_funcs` argument (for map/offload: the one callable)
    tasks,      \* the scheduled tasks, in creation order: [fn, ent]
    tstate,     \* the state of each task
    completed,  \* history: the tasks in the order in which they completed
    doneQ,      \* as_completed's queue of completed, not yet drained tasks
    results,    \* map_concurrently's local `results`
    ret,        \* what the call returned to the caller
    err,        \* the error the caller observed
    server,     \* the pages the remote listing holds: [has, items]
    hname,      \* get_non_provider_id's `name` argument, last call
    hasher,     \* the bytes fed to the sha1 object `name_hash`, last call
    seen,       \* history: the (name, identifier) pairs returned so far
    calls       \* history: the number of calls of get_non_provider_id

vars == <<op, pc, entities, funcs, tasks, tstate, completed, doneQ, results, ret, err,
          server, hname, hasher, seen, calls>>
facadeVars == <<server>>
hashVars == <<hname, hasher, seen, calls>>

----------------------------------------------------------------------------
\* Values.

Unfinished == {"pending", "running", "hung"}
Completed == {"ok", "failed"}

NoError == [kind |-> "none", fn |-> 0, ent |-> 0]
ValueError == [kind |-> "ValueError", fn |-> 0, ent |-> 0]
KeyError == [kind |-> "KeyError", fn |-> 0, ent |-> 0]
UnicodeEncodeError == [kind |-> "UnicodeEncodeError", fn |-> 0, ent |-> 0]
\* The error raised by fn(ent).
TaskError(task) == [kind |-> "TaskError", fn |-> task.fn, ent |-> task.ent]

NoValue == [kind |-> "novalue", val |-> <<>>]
None == [kind |-> "None", val |-> <<>>]
ListValue(s) == [kind |-> "list", val |-> s]
\* The value fn(ent) evaluates to: an uninterpreted application term.
TaskResult(task) == [fn |-> task.fn, arg |-> task.ent]

\* A list of n distinct entities / functions.
Ids(n) == [i \in 1..n |-> i]

----------------------------------------------------------------------------
\* The helpers' code, piece by piece.

\* The early return left out.
NoEntitiesUnguarded(es) == FALSE

\* `if len(entities) == 0` (both helpers' early return).
NoEntities(es) == Len(es) = 0

\* The two loops of the comprehension advancing together, not nested.
TaskSetLockstep(fs, es) ==
    [k \in 1..(Len(es) * Len(fs)) |->
        [fn  |-> fs[((k - 1) % Len(fs)) + 1],
         ent |-> es[((k - 1) % Len(es)) + 1]]]

\* get_and_set_concurrently's task set: one task per entity and function,
\* created entity by entity and, for one entity, function by function.
TaskSet(fs, es) ==
    [k \in 1..(Len(es) * Len(fs)) |->
        [fn  |-> fs[((k - 1) % Len(fs)) + 1],
         ent |-> es[((k - 1) \div Len(fs)) + 1]]]

\* map_concurrently's task set: one task per entity.
MapTaskSet(coro, es) == [k \in 1..Len(es) |-> [fn |-> coro, ent |-> es[k]]]

\* ensure_future: a new task is scheduled, not started.
Scheduled(ts) == [k \in DOMAIN ts |-> "pending"]

\* A task kept back while another task on the same entity is in progress.
RunnableLocked(ts, st, t) ==
    /\ st[t] = "pending"
    /\ \A u \in DOMAIN st : u # t /\ ts[u].ent = ts[t].ent => st[u] \notin {"running", "hung"}

\* A task made by ensure_future can start whenever the loop gets to it: no
\* lock, no order between tasks.
Runnable(ts, st, t) == st[t] = "pending"

\* asyncio.wait accepting an empty set.
WaitAcceptsEmpty(ts) == FALSE

\* asyncio.wait(tasks) raises ValueError at once when the set is empty.
WaitRejects(ts) == Len(ts) = 0

\* asyncio.wait with return_when=FIRST_COMPLETED.
WaitFirstCompleted(st) == \E t \in DOMAIN st : st[t] \in Completed

\* asyncio.wait with a timeout that gives up on the tasks still running.
WaitDoneOrTimeout(st) == \A t \in DOMAIN st : st[t] \in Completed \cup {"hung"}

\* asyncio.wait(tasks) with the default return_when=ALL_COMPLETED and no
\* timeout: its waiter is released when every task is done.
WaitDone(st) == \A t \in DOMAIN st : st[t] \in Completed

\* asyncio.gather in place of asyncio.wait: a failed task's exception is raised.
GatherRaises(ts, st) ==
    IF \E t \in DOMAIN st : st[t] = "failed"
      THEN TaskError(ts[CHOOSE t \in DOMAIN st : st[t] = "failed"])
      ELSE NoError

\* What `await asyncio.wait(tasks)` raises into the coroutine when it is
\* resumed: nothing; the (done, pending) pair it returns is dropped and no
\* task's exception is retrieved.
WaitRaises(ts, st) == NoError

\* The failed tasks handed back to the caller.
GSReturnsFailed(ts, st) ==
    IF \E t \in DOMAIN st : st[t] = "failed"
      THEN ListValue(<<TaskResult(ts[CHOOSE t \in DOMAIN st : st[t] = "failed"])>>)
      ELSE None

\* What get_and_set_concurrently returns after its wait: it has no return
\* statement, and `tasks` and asyncio.wait's (done, pending) are locals.
GSReturnValue(ts, st) == None

\* A completed task put at the front of the queue.
OnCompletionFront(q, t) == <<t>> \o q

\* as_completed's done callback: a completed task is put at the end of the
\* queue the iterator drains.
OnCompletion(q, t) == Append(q, t)

\* The task's exception swallowed.
AwaitSwallows(ts, st, t) == NoError

\* `result = await task` for the next drained task t: the task's result, or
\* its exception raised into map_concurrently.
AwaitRaises(ts, st, t) == IF st[t] = "failed" THEN TaskError(ts[t]) ELSE NoError

\* `return results` inside the loop.
LoopDoneEarly(rs, ts) == Len(rs) >= 1

\* The for loop over as_completed(tasks) ends after len(tasks) iterations.
LoopDone(rs, ts) == Len(rs) = Len(ts)

\* The tasks still in flight cancelled when the exception leaves.
AbandonedCancelled(st) ==
    [t \in DOMAIN st |-> IF st[t] \in Unfinished THEN "cancelled" ELSE st[t]]

\* The tasks still in flight when an exception leaves map_concurrently:
\* nothing cancels them.
Abandoned(st) == st

\* func called in the caller's thread, its exception raised by the call.
RunInline(task) == [state |-> "failed", raises |-> TaskError(task)]

\* run_in_executor(None, func): the future it returns is pending, and the call
\* raises nothing: func runs later, in a worker thread.
RunInExecutor(task) == [state |-> "pending", raises |-> NoError]

----------------------------------------------------------------------------
\* The remote listing and the facade's code.

\* The j-th item of page i: the items of the listing are numbered through.
Item(i, j) == (i - 1) * MaxItems + j

\* A response: the field 'items' is absent, or holds k items.
PageShapes == {sh \in [has : BOOLEAN, k : 0..MaxItems] : sh.has \/ sh.k = 0}
Page(i, sh) == [has |-> sh.has, items |-> [j \in 1..sh.k |-> Item(i, j)]]

\* The listings a remote can hold: one to MaxPages pages; every response but
\* the last carries a continuation token.
Servers ==
    UNION {{[i \in 1..n |-> Page(i, c[i])] : c \in [1..n -> PageShapes]} : n \in 1..MaxPages}

\* The request list(...) builds asks for the first page.
FirstRequest == [fn |-> 1, ent |-> 1]

\* list_next(previous_request, previous_response): the request for the page
\* after page cur, or 0 (None) when the response carried no token.
ListNext(srv, cur) == IF cur < Len(srv) THEN cur + 1 ELSE 0

\* response['items']: a KeyError when the field is absent.
ResponseIndex(resp) ==
    [raises |-> IF resp.has THEN NoError ELSE KeyError, items |-> resp.items]

\* response.get('item', []): a key no response has.
ResponseGetWrongKey(resp) == [raises |-> NoError, items |-> <<>>]

\* response.get('items', []): the field's items, or [] when it is absent; it
\* raises nothing.
ResponseGet(resp) ==
    [raises |-> NoError, items |-> IF resp.has THEN resp.items ELSE <<>>]

\* The walker failing on a response without the field.
ExtractStrict(resp) ==
    [raises |-> IF resp.has THEN NoError ELSE KeyError, items |-> resp.items]

\* The walker's items = response[field], an absent field giving no item.
Extract(resp) ==
    [raises |-> NoError, items |-> IF resp.has THEN resp.items ELSE <<>>]

\* The walker putting a page's items in front of the accumulator.
AccumulateFront(acc, items) == items \o acc

\* The walker appends a page's items to the accumulator.
Accumulate(acc, items) == acc \o items

\* The walker stopping at a page without items.
WalkEndsOnEmpty(srv, cur, items) == IF items = <<>> THEN 0 ELSE ListNext(srv, cur)

\* The walker's next request: what the continuation derives, whatever the
\* page held.
WalkNext(srv, cur, items) == ListNext(srv, cur)

\* The walker going on after a failed fetch, as if the page were empty.
FetchFailureSkipped(task, st) == NoError

\* What awaiting a page's fetch raises into the walker: the fetch's failure.
FetchRaises(task, st) == IF st = "failed" THEN TaskError(task) ELSE NoError

----------------------------------------------------------------------------
\* get_non_provider_id's code.  A name is a sequence of code points; the
\* names tried are made of '.', U+00E9 and the lone surrogate U+D800, which a
\* Python str can hold.

CodePoints == {46, 233, 55296}

RECURSIVE SeqsUpTo(_, _)
SeqsUpTo(S, n) ==
    IF n = 0 THEN {<<>>}
    ELSE LET shorter == SeqsUpTo(S, n - 1) IN
         shorter \cup {Append(q, x) : q \in shorter, x \in S}

Names == SeqsUpTo(CodePoints, MaxNameLen)

\* The 'utf-8' codec refuses the surrogates U+D800..U+DFFF.
Surrogate(cp) == cp >= 55296 /\ cp <= 57343

\* The UTF-8 bytes of one code point.
Utf8(cp) ==
    IF cp < 128 THEN <<cp>>
    ELSE IF cp < 2048 THEN <<192 + (cp \div 64), 128 + (cp % 64)>>
    ELSE IF cp < 65536
      THEN <<224 + (cp \div 4096), 128 + ((cp \div 64) % 64), 128 + (cp % 64)>>
    ELSE <<240 + (cp \div 262144), 128 + ((cp \div 4096) % 64),
           128 + ((cp \div 64) % 64), 128 + (cp % 64)>>

RECURSIVE Utf8Bytes(_)
Utf8Bytes(name) ==
    IF name = <<>> THEN <<>> ELSE Utf8(Head(name)) \o Utf8Bytes(Tail(name))

\* name.encode('utf-8'): the bytes, or UnicodeEncodeError.
Encode(name) ==
    IF \E i \in DOMAIN name : Surrogate(name[i])
      THEN [raises |-> UnicodeEncodeError, bytes |-> <<>>]
      ELSE [raises |-> NoError, bytes |-> Utf8Bytes(name)]

\* One sha1 object kept for all calls.
Sha1Shared(prev) == prev

\* name_hash = sha1(): a new object, fed nothing yet, whatever the object of
\* the call before (prev) was fed.
Sha1New(prev) == <<>>

\* name_hash.update(data).
Sha1Update(fed, data) == fed \o data

\* name_hash.hexdigest(): the SHA-1 digest of the bytes fed, as an
\* uninterpreted term over them (no two byte strings share a digest).
HexDigest(fed) == [kind |-> "sha1", val |-> fed]

----------------------------------------------------------------------------
Init ==
    /\ op = "none"
    /\ pc = "idle"
    /\ entities = <<>>
    /\ funcs = <<>>
    /\ tasks = <<>>
    /\ tstate = <<>>
    /\ completed = <<>>
    /\ doneQ = <<>>
    /\ results = <<>>
    /\ ret = NoValue
    /\ err = NoError
    /\ server = <<>>
    /\ hname = <<>>
    /\ hasher = <<>>
    /\ seen = {}
    /\ calls = 0

\* The caller awaits get_and_set_concurrently(fs, es): the coroutine runs up to
\* `await asyncio.wait(tasks)`.
get_and_set_concurrently(fs, es) ==
    /\ pc = "idle"
    /\ Len(fs) * Len(es) <= MaxTasks
    /\ op' = "gs"
    /\ entities' = es
    /\ funcs' = fs
    /\ IF NoEntities(es)
         THEN /\ pc' = "returned"
              /\ ret' = None
              /\ UNCHANGED <<tasks, tstate, err>>
         ELSE LET ts == TaskSet(fs, es) IN
              /\ tasks' = ts
              /\ tstate' = Scheduled(ts)
              /\ IF WaitRejects(ts)
                   THEN pc' = "raised" /\ err' = ValueError
                   ELSE pc' = "waiting" /\ UNCHANGED err
              /\ UNCHANGED ret
    /\ UNCHANGED <<completed, doneQ, results>>
    /\ UNCHANGED <<facadeVars, hashVars>>

\* The event loop resumes get_and_set_concurrently after asyncio.wait.
get_and_set_resume ==
    /\ op = "gs"
    /\ pc = "waiting"
    /\ WaitDone(tstate)
    /\ LET e == WaitRaises(tasks, tstate) IN
       IF e = NoError
         THEN pc' = "returned" /\ ret' = GSReturnValue(tasks, tstate) /\ UNCHANGED err
         ELSE pc' = "raised" /\ err' = e /\ UNCHANGED ret
    /\ UNCHANGED <<op, entities, funcs, tasks, tstate, completed, doneQ, results>>
    /\ UNCHANGED <<facadeVars, hashVars>>

\* The caller awaits map_concurrently(coro, es): the coroutine runs up to the
\* first `await task`.
map_concurrently(coro, es) ==
    /\ pc = "idle"
    /\ Len(es) <= MaxTasks
    /\ op' = "map"
    /\ entities' = es
    /\ funcs' = <<coro>>
    /\ IF NoEntities(es)
         THEN /\ pc' = "returned"
              /\ ret' = ListValue(<<>>)
              /\ UNCHANGED <<tasks, tstate>>
         ELSE LET ts == MapTaskSet(coro, es) IN
              /\ tasks' = ts
              /\ tstate' = Scheduled(ts)
              /\ pc' = "draining"
              /\ UNCHANGED ret
    /\ results' = <<>>
    /\ UNCHANGED <<completed, doneQ, err>>
    /\ UNCHANGED <<facadeVars, hashVars>>

\* The event loop resumes map_concurrently with the next completed task: one
\* iteration of the for loop, and the return when it was the last.
map_drain ==
    /\ op = "map"
    /\ pc = "draining"
    /\ doneQ # <<>>
    /\ LET t == Head(doneQ)
           e == AwaitRaises(tasks, tstate, t)
           rs == Append(results, TaskResult(tasks[t]))
       IN  /\ doneQ' = Tail(doneQ)
           /\ IF e # NoError
                THEN /\ pc' = "raised"
                     /\ err' = e
                     /\ tstate' = Abandoned(tstate)
                     /\ UNCHANGED <<results, ret>>
                ELSE /\ results' = rs
                     /\ IF LoopDone(rs, tasks)
                          THEN pc' = "returned" /\ ret' = ListValue(rs)
                          ELSE UNCHANGED <<pc, ret>>
                     /\ UNCHANGED <<err, tstate>>
    /\ UNCHANGED <<op, entities, funcs, tasks, completed>>
    /\ UNCHANGED <<facadeVars, hashVars>>

\* The caller calls run_concurrently(func) and holds the future it returns.
run_concurrently(func) ==
    /\ pc = "idle"
    /\ op' = "offload"
    /\ funcs' = <<func>>
    /\ LET task == [fn |-> func, ent |-> 0]
           r == RunInExecutor(task)
       IN  /\ tasks' = <<task>>
           /\ tstate' = <<r.state>>
           /\ IF r.raises = NoError
                THEN pc' = "holding" /\ UNCHANGED err
                ELSE pc' = "raised" /\ err' = r.raises
    /\ UNCHANGED <<entities, completed, doneQ, results, ret>>
    /\ UNCHANGED <<facadeVars, hashVars>>

\* The caller awaits the future it holds.
await_future ==
    /\ op = "offload"
    /\ pc = "holding"
    /\ pc' = "awaiting"
    /\ UNCHANGED <<op, entities, funcs, tasks, tstate, completed, doneQ, results, ret, err>>
    /\ UNCHANGED <<facadeVars, hashVars>>

\* The event loop resumes the caller with the awaited future's outcome.
await_future_resume ==
    /\ op = "offload"
    /\ pc = "awaiting"
    /\ tstate[1] \in Completed
    /\ IF tstate[1] = "failed"
         THEN pc' = "raised" /\ err' = TaskError(tasks[1]) /\ UNCHANGED ret
         ELSE pc' = "returned" /\ ret' = ListValue(<<TaskResult(tasks[1])>>) /\ UNCHANGED err
    /\ UNCHANGED <<op, entities, funcs, tasks, tstate, completed, doneQ, results>>
    /\ UNCHANGED <<facadeVars, hashVars>>

\* The caller drops the future it holds and goes on without awaiting it.
drop_future ==
    /\ op = "offload"
    /\ pc = "holding"
    /\ pc' = "continued"
    /\ UNCHANGED <<op, entities, funcs, tasks, tstate, completed, doneQ, results, ret, err>>
    /\ UNCHANGED <<facadeVars, hashVars>>

\* collect_all / GCPFacadeUtils.get_all('items', request, group), up to its
\* first suspension: the first request is executed through run_concurrently.
get_all(pages) ==
    /\ server' = pages
    /\ results' = <<>>
    /\ LET r == RunInExecutor(FirstRequest) IN
         /\ tasks' = <<FirstRequest>>
         /\ tstate' = <<r.state>>
         /\ IF r.raises = NoError
              THEN pc' = "walking" /\ UNCHANGED err
              ELSE pc' = "raised" /\ err' = r.raises

Walkers == {"get_backups", "get_database_instances"}

\* The caller awaits CloudSQLFacade.get_backups(project_id, instance_name).
get_backups(pages) ==
    /\ pc = "idle"
    /\ Len(pages) <= MaxTasks
    /\ op' = "get_backups"
    /\ get_all(pages)
    /\ UNCHANGED <<entities, funcs, completed, doneQ, ret, hashVars>>

\* The caller awaits CloudSQLFacade.get_database_instances(project_id).
get_database_instances(pages) ==
    /\ pc = "idle"
    /\ Len(pages) <= MaxTasks
    /\ op' = "get_database_instances"
    /\ get_all(pages)
    /\ UNCHANGED <<entities, funcs, completed, doneQ, ret, hashVars>>

\* The event loop resumes the walker with the outcome of the page it fetched:
\* the page's items are appended, the next request is derived and, unless it
\* is None, executed.
get_all_resume ==
    /\ op \in Walkers
    /\ pc = "walking"
    /\ LET t == Len(tasks)
           cur == tasks[t].ent
           e == FetchRaises(tasks[t], tstate[t])
           x == Extract(server[cur])
           acc == Accumulate(results, x.items)
           nxt == WalkNext(server, cur, x.items)
           task == [fn |-> 1, ent |-> nxt]
           r == RunInExecutor(task)
       IN  /\ tstate[t] \in Completed
           /\ IF e # NoError
                THEN /\ pc' = "raised"
                     /\ err' = e
                     /\ UNCHANGED <<tasks, tstate, results, ret>>
                ELSE IF x.raises # NoError
                THEN /\ pc' = "raised"
                     /\ err' = x.raises
                     /\ UNCHANGED <<tasks, tstate, results, ret>>
                ELSE /\ results' = acc
                     /\ IF nxt = 0
                          THEN /\ pc' = "returned"
                               /\ ret' = ListValue(acc)
                               /\ UNCHANGED <<tasks, tstate, err>>
                          ELSE /\ tasks' = Append(tasks, task)
                               /\ tstate' = Append(tstate, r.state)
                               /\ IF r.raises = NoError
                                    THEN UNCHANGED <<pc, err>>
                                    ELSE pc' = "raised" /\ err' = r.raises
                               /\ UNCHANGED ret
    /\ UNCHANGED <<op, entities, funcs, completed, doneQ, server, hashVars>>

\* The caller awaits CloudSQLFacade.get_users(project_id, instance_name): the
\* coroutine runs up to `await run_concurrently(...)`.
get_users(pages) ==
    /\ pc = "idle"
    /\ op' = "get_users"
    /\ server' = pages
    /\ LET r == RunInExecutor(FirstRequest) IN
         /\ tasks' = <<FirstRequest>>
         /\ tstate' = <<r.state>>
         /\ IF r.raises = NoError
              THEN pc' = "listing" /\ UNCHANGED err
              ELSE pc' = "raised" /\ err' = r.raises
    /\ UNCHANGED <<entities, funcs, completed, doneQ, results, ret, hashVars>>

\* The event loop resumes get_users with the response, or the exception, of
\* its one listing call.
get_users_resume ==
    /\ op = "get_users"
    /\ pc = "listing"
    /\ tstate[1] \in Completed
    /\ LET x == ResponseGet(server[tasks[1].ent]) IN
         IF tstate[1] = "failed"
           THEN pc' = "raised" /\ err' = TaskError(tasks[1]) /\ UNCHANGED ret
           ELSE IF x.raises # NoError
           THEN pc' = "raised" /\ err' = x.raises /\ UNCHANGED ret
           ELSE pc' = "returned" /\ ret' = ListValue(x.items) /\ UNCHANGED err
    /\ UNCHANGED <<op, entities, funcs, tasks, tstate, completed, doneQ, results,
                   server, hashVars>>

\* The caller calls get_non_provider_id(name), for the first time or again.
get_non_provider_id(name) ==
    /\ pc = "idle" \/ op = "hash"
    /\ calls < MaxCalls
    /\ op' = "hash"
    /\ calls' = calls + 1
    /\ hname' = name
    /\ LET name_hash == Sha1New(hasher)
           data == Encode(name)
           fed == Sha1Update(name_hash, data.bytes)
       IN  IF data.raises # NoError
             THEN /\ pc' = "raised"
                  /\ err' = data.raises
                  /\ ret' = NoValue
                  /\ hasher' = name_hash
                  /\ UNCHANGED seen
             ELSE /\ pc' = "returned"
                  /\ err' = NoError
                  /\ ret' = HexDigest(fed)
                  /\ hasher' = fed
                  /\ seen' = seen \cup {<<name, HexDigest(fed)>>}
    /\ UNCHANGED <<entities, funcs, tasks, tstate, completed, doneQ, results, facadeVars>>

\* The loop (or a worker thread) starts task t; its operation is one that
\* terminates, or one that never does.
TaskStart(t) ==
    /\ t \in DOMAIN tstate
    /\ Runnable(tasks, tstate, t)
    /\ \/ tstate' = [tstate EXCEPT ![t] = "running"]
       \/ tstate' = [tstate EXCEPT ![t] = "hung"]
    /\ UNCHANGED <<op, pc, entities, funcs, tasks, completed, doneQ, results, ret, err>>
    /\ UNCHANGED <<facadeVars, hashVars>>

\* Task t's operation returns or raises; the task's done callbacks run.
TaskFinish(t) ==
    /\ t \in DOMAIN tstate
    /\ tstate[t] = "running"
    /\ \/ tstate' = [tstate EXCEPT ![t] = "ok"]
       \/ tstate' = [tstate EXCEPT ![t] = "failed"]
    /\ completed' = Append(completed, t)
    /\ doneQ' = IF op = "map" THEN OnCompletion(doneQ, t) ELSE doneQ
    /\ UNCHANGED <<op, pc, entities, funcs, tasks, results, ret, err>>
    /\ UNCHANGED <<facadeVars, hashVars>>

TaskIds == 1..MaxTasks

\* A guard in front of \E only repeats the action's own: it spares enumerating
\* the inputs in the states where the call cannot be made.
Next ==
    \/ \E nf \in 0..MaxFuncs, ne \in 0..MaxEntities :
          get_and_set_concurrently(Ids(nf), Ids(ne))
    \/ get_and_set_resume
    \/ \E ne \in 0..MaxEntities : map_concurrently(1, Ids(ne))
    \/ map_drain
    \/ run_concurrently(1)
    \/ await_future
    \/ await_future_resume
    \/ drop_future
    \/ pc = "idle" /\ \E pages \in Servers : get_backups(pages)
    \/ pc = "idle" /\ \E pages \in Servers : get_database_instances(pages)
    \/ get_all_resume
    \/ pc = "idle" /\ \E pages \in Servers : get_users(pages)
    \/ get_users_resume
    \/ op \in {"none", "hash"} /\ \E name \in Names : get_non_provider_id(name)
    \/ \E t \in TaskIds : TaskStart(t)
    \/ \E t \in TaskIds : TaskFinish(t)

Spec == Init /\ [][Next]_vars

\* The event loop and the worker threads are fair to every task, and an
\* operation that is not hung terminates.
FairSpec ==
    /\ Spec
    /\ \A t \in TaskIds : WF_vars(TaskStart(t)) /\ WF_vars(TaskFinish(t))
    /\ WF_vars(get_and_set_resume)
    /\ WF_vars(map_drain)
    /\ WF_vars(await_future_resume)
    /\ WF_vars(get_all_resume)
    /\ WF_vars(get_users_resume)

----------------------------------------------------------------------------
\* Properties.

UnfinishedTasks(st) == {t \in DOMAIN st : st[t] \in Unfinished}
Failed(st) == {t \in DOMAIN st : st[t] = "failed"}
Succeeded(st) == {t \in DOMAIN st : st[t] = "ok"}
Perms(n) == {p \in [1..n -> 1..n] : \A i, j \in 1..n : p[i] = p[j] => i = j}
\* The tasks map_concurrently has drained so far, in the order it drained them.
Drained == SubSeq(completed, 1, Len(completed) - Len(doneQ))

\* C1: get_and_set_concurrently, called with entities and functions, does not
\* return (or leave its wait in any other way) while one of its tasks is still
\* pending or running.
GSReturnsAfterAllTasks ==
    (op = "gs" /\ Len(entities) > 0 /\ Len(funcs) > 0 /\ UnfinishedTasks(tstate) # {})
        => pc = "waiting"

\* It has returned after tasks that completed in another order than they were
\* created in.
GSReturnsAfterAllTasksWitness ==
    /\ op = "gs"
    /\ pc = "returned"
    /\ Len(tasks) >= 3
    /\ completed # Ids(Len(tasks))

\* C2: whatever tasks of get_and_set_concurrently fail, the call raises nothing:
\* once all its tasks are done it can only return None, and then every task,
\* failed or not, has run to completion.
GSAbsorbsFailures ==
    (op = "gs" /\ Len(tasks) > 0) =>
        /\ pc \in {"waiting", "returned"}
        /\ err = NoError
        /\ (pc = "returned" => ret = None /\ UnfinishedTasks(tstate) = {})
        /\ (pc = "waiting" /\ UnfinishedTasks(tstate) = {} => ENABLED get_and_set_resume)

\* It has returned with failed tasks and succeeded ones.
GSAbsorbsFailuresWitness ==
    /\ op = "gs"
    /\ pc = "returned"
    /\ Cardinality(Failed(tstate)) >= 2
    /\ Succeeded(tstate) # {}

\* It has returned with every task failed.
GSAbsorbsAllFailedWitness ==
    /\ op = "gs"
    /\ pc = "returned"
    /\ Len(tasks) >= 2
    /\ Cardinality(Failed(tstate)) = Len(tasks)

\* C3: map_concurrently never goes on draining past a failed task: while it
\* drains, every task drained so far succeeded, and when it has raised, the
\* error is that of the first task to complete as failed, all tasks that
\* completed before it having succeeded; nothing is required of the others.
MapFailsFast ==
    op = "map" =>
        /\ pc = "draining" =>
              \A i \in 1..Len(Drained) : tstate[Drained[i]] = "ok"
        /\ pc = "raised" =>
              /\ Drained # <<>>
              /\ LET t == Drained[Len(Drained)] IN
                   /\ tstate[t] = "failed"
                   /\ err = TaskError(tasks[t])
                   /\ \A i \in 1..(Len(Drained) - 1) : tstate[Drained[i]] = "ok"
                   /\ \A u \in Failed(tstate) \ {t} :
                         \E i, j \in 1..Len(completed) :
                            i < j /\ completed[i] = t /\ completed[j] = u

\* Of [e1, e2, e3], e2's task failed first and the call has raised its error
\* while e1's task is running and e3's has not started.
MapFailsFastWitness ==
    /\ op = "map"
    /\ pc = "raised"
    /\ Len(entities) = 3
    /\ err = TaskError([fn |-> funcs[1], ent |-> entities[2]])
    /\ tstate = <<"running", "failed", "pending">>

\* C4: what map_concurrently returns is the tasks' results in the order in which
\* the tasks completed, a permutation of [coro(e1), ..., coro(en)].
MapCompletionOrder ==
    (op = "map" /\ pc = "returned") =>
        /\ ret.kind = "list"
        /\ Len(completed) = Len(entities)
        /\ ret.val = [i \in 1..Len(completed) |-> TaskResult(tasks[completed[i]])]
        /\ \E p \in Perms(Len(entities)) :
              ret.val = [i \in 1..Len(entities) |->
                            TaskResult([fn |-> funcs[1], ent |-> entities[p[i]]])]

\* It has returned three results in another order than the entities'.
MapCompletionOrderWitness ==
    /\ op = "map"
    /\ pc = "returned"
    /\ Len(entities) = 3
    /\ ret.val # [i \in 1..3 |-> TaskResult([fn |-> funcs[1], ent |-> entities[i]])]

\* C5: map_concurrently hands a value to its caller only by returning, and it
\* returns only when all its tasks are done, one result per entity; a call that
\* raised handed over nothing, whatever it had collected.
MapAllOrNothing ==
    op = "map" =>
        /\ pc = "returned" =>
              /\ ret.kind = "list"
              /\ Len(ret.val) = Len(entities)
              /\ UnfinishedTasks(tstate) = {}
              /\ err = NoError
        /\ pc # "returned" => ret = NoValue

\* It has raised after collecting two results.
MapAllOrNothingWitness ==
    /\ op = "map"
    /\ pc = "raised"
    /\ Len(results) = 2
    /\ ret = NoValue

\* C6: get_and_set_concurrently, called with entities, schedules
\* len(funcs) * len(entities) tasks, exactly one for each function and entity,
\* and has not returned unless all of them are done, failed or not.
GSCrossProduct ==
    (op = "gs" /\ Len(entities) > 0) =>
        /\ Len(tasks) = Len(funcs) * Len(entities)
        /\ DOMAIN tstate = DOMAIN tasks
        /\ \A f \in 1..Len(funcs), e \in 1..Len(entities) :
              Cardinality({t \in DOMAIN tasks :
                             tasks[t] = [fn |-> funcs[f], ent |-> entities[e]]}) = 1
        /\ pc = "returned" => Cardinality(Failed(tstate) \cup Succeeded(tstate)) = Len(tasks)

\* It has returned from two functions on two entities, with four tasks done, one
\* of them failed.
GSCrossProductWitness ==
    /\ op = "gs"
    /\ pc = "returned"
    /\ Len(funcs) = 2
    /\ Len(entities) = 2
    /\ Len(completed) = 4
    /\ Cardinality(Failed(tstate)) = 1

\* C7: once map_concurrently has raised, the tasks still in flight are not
\* cancelled and, their operations terminating, complete; the caller's view
\* (the error, no value) never changes again.
MapAbandonedTasksComplete ==
    /\ [](op = "map" /\ pc = "raised" =>
            <>(\A t \in DOMAIN tstate : tstate[t] \in Completed \cup {"hung"}))
    /\ [](\A t \in DOMAIN tstate : tstate[t] \in Completed \cup Unfinished)
    /\ [][op = "map" /\ pc = "raised" =>
            pc' = pc /\ err' = err /\ ret' = NoValue /\ results' = results]_vars

\* It raised on the first of three tasks to complete; the two others completed
\* afterwards and were never drained.
MapAbandonedTasksCompleteWitness ==
    /\ op = "map"
    /\ pc = "raised"
    /\ Len(tasks) = 3
    /\ UnfinishedTasks(tstate) = {}
    /\ Len(doneQ) = 2

\* C8: the caller of run_concurrently sees the error of a failed future only
\* when it is resumed from awaiting that future, and then it is the wrapped
\* function's error; holding the future or dropping it, it sees none.
OffloadErrorOnlyOnAwait ==
    /\ [](op = "offload" /\ pc \in {"holding", "awaiting", "continued"} =>
            err = NoError /\ ret = NoValue)
    /\ [][op' = "offload" /\ err' # err =>
            /\ pc = "awaiting"
            /\ pc' = "raised"
            /\ tstate[1] = "failed"
            /\ err' = TaskError(tasks[1])]_vars
    /\ [][op = "offload" /\ pc = "continued" => pc' = "continued"]_vars

\* The caller went on without awaiting the future, which failed.
OffloadErrorOnlyOnAwaitWitness ==
    /\ op = "offload"
    /\ pc = "continued"
    /\ tstate[1] = "failed"
    /\ err = NoError

\* The caller awaited the failed future and got its error.
OffloadAwaitedErrorWitness ==
    /\ op = "offload"
    /\ pc = "raised"
    /\ err = TaskError(tasks[1])

\* C9: nothing cancels or times out a task: a hung task stays hung, and while
\* one is hung get_and_set_concurrently stays in its wait and map_concurrently
\* returns no result.
NoCancellationNoTimeout ==
    /\ [](UnfinishedTasks(tstate) # {} /\ (\E t \in DOMAIN tstate : tstate[t] = "hung") =>
            /\ op = "gs" => pc = "waiting" /\ ret = NoValue
            /\ op = "map" => pc \in {"draining", "raised"} /\ ret = NoValue)
    /\ [][\A t \in DOMAIN tstate : tstate[t] = "hung" =>
            t \in DOMAIN tstate' /\ tstate'[t] = "hung"]_vars

\* get_and_set_concurrently waits on one hung task, all others done.
NoCancellationNoTimeoutWitness ==
    /\ op = "gs"
    /\ pc = "waiting"
    /\ Len(tasks) >= 2
    /\ Cardinality(UnfinishedTasks(tstate)) = 1
    /\ \E t \in DOMAIN tstate : tstate[t] = "hung"

\* map_concurrently has drained all tasks but a hung one.
MapHungWitness ==
    /\ op = "map"
    /\ pc = "draining"
    /\ Len(tasks) >= 2
    /\ Len(results) = Len(tasks) - 1
    /\ \E t \in DOMAIN tstate : tstate[t] = "hung"

\* C10: get_and_set_concurrently called with no entities has returned None at
\* once, with no task scheduled and no function called, whatever the functions.
GSNoEntitiesNoop ==
    (op = "gs" /\ Len(entities) = 0) =>
        /\ pc = "returned"
        /\ ret = None
        /\ err = NoError
        /\ tasks = <<>>
        /\ tstate = <<>>
        /\ completed = <<>>

\* It was called with two functions and no entity.
GSNoEntitiesNoopWitness ==
    /\ op = "gs"
    /\ Len(entities) = 0
    /\ Len(funcs) = 2
    /\ pc = "returned"

\* C11: map_concurrently called with no entities has returned the empty list
\* at once, with no task scheduled and coro not called.
MapNoEntitiesEmptyList ==
    (op = "map" /\ Len(entities) = 0) =>
        /\ pc = "returned"
        /\ ret = ListValue(<<>>)
        /\ err = NoError
        /\ tasks = <<>>
        /\ tstate = <<>>
        /\ completed = <<>>
        /\ doneQ = <<>>

\* It was called with no entity and has returned.
MapNoEntitiesEmptyListWitness ==
    /\ op = "map"
    /\ Len(entities) = 0
    /\ pc = "returned"
    /\ ret.kind = "list"

\* C17: get_and_set_concurrently called with entities and no function builds
\* an empty task set and fails on it with asyncio.wait's ValueError: it neither
\* returns nor waits.
GSNoFuncsRaises ==
    (op = "gs" /\ Len(entities) > 0 /\ Len(funcs) = 0) =>
        /\ pc = "raised"
        /\ err = ValueError
        /\ ret = NoValue
        /\ tasks = <<>>

\* It was called with three entities and no function.
GSNoFuncsRaisesWitness ==
    /\ op = "gs"
    /\ Len(entities) = 3
    /\ Len(funcs) = 0
    /\ pc = "raised"

\* C18: what the caller of get_and_set_concurrently holds after the call
\* returned is None and no error, whichever tasks failed: the same for every
\* outcome of every task.
GSReturnHidesOutcomes ==
    (op = "gs" /\ pc = "returned") => <<ret, err>> = <<None, NoError>>

\* It returned after one function failed on an entity and another succeeded on
\* the same entity.
GSReturnHidesOutcomesWitness ==
    /\ op = "gs"
    /\ pc = "returned"
    /\ \E t, u \in DOMAIN tasks :
          /\ tasks[t].ent = tasks[u].ent
          /\ tstate[t] = "failed"
          /\ tstate[u] = "ok"

\* It returned with every task succeeded.
GSReturnAllSucceededWitness ==
    /\ op = "gs"
    /\ pc = "returned"
    /\ Len(tasks) >= 2
    /\ Cardinality(Succeeded(tstate)) = Len(tasks)

\* C19: get_and_set_concurrently hands every entity to len(funcs) tasks, and
\* nothing holds a pending task back while other tasks on its entity are in
\* progress.
GSNoEntityLock ==
    op = "gs" =>
        /\ \A e \in 1..Len(entities) :
              Len(tasks) > 0 =>
                 Cardinality({t \in DOMAIN tasks : tasks[t].ent = entities[e]}) = Len(funcs)
        /\ \A t \in DOMAIN tstate : tstate[t] = "pending" => ENABLED TaskStart(t)

\* Two tasks on the same entity are running at once.
GSNoEntityLockWitness ==
    /\ op = "gs"
    /\ Len(funcs) >= 2
    /\ \E t, u \in DOMAIN tasks :
          /\ t # u
          /\ tasks[t].ent = tasks[u].ent
          /\ tstate[t] = "running"
          /\ tstate[u] = "running"

\* What a page contributes to a listing.
PageItems(page) == IF page.has THEN page.items ELSE <<>>

\* The items of the first k pages, page by page.
RECURSIVE FirstPages(_, _)
FirstPages(srv, k) ==
    IF k = 0 THEN <<>> ELSE FirstPages(srv, k - 1) \o PageItems(srv[k])

\* The pages the walker has consumed: all it requested, but the last one while
\* that one's response is outstanding or failed.
Consumed == IF pc = "returned" THEN Len(tasks) ELSE Len(tasks) - 1

\* C12: the Page Walker requests the pages one at a time and in order, a page
\* only when all pages before it were fetched and their items appended; what
\* it has accumulated, and what it returns, is the pages' items in fetch order.
WalkIsSequential ==
    op \in Walkers =>
        /\ \A i \in DOMAIN tasks : tasks[i].ent = i
        /\ \A i \in 1..(Len(tasks) - 1) : tstate[i] = "ok"
        /\ Cardinality(UnfinishedTasks(tstate)) <= 1
        /\ results = FirstPages(server, Consumed)
        /\ pc = "returned" => ret = ListValue(FirstPages(server, Len(server)))

\* Over the pages [1, 2] and [3] it returned [1, 2, 3].
WalkIsSequentialWitness ==
    /\ op = "get_backups"
    /\ pc = "returned"
    /\ server = <<[has |-> TRUE, items |-> <<1, 2>>], [has |-> TRUE, items |-> <<3>>]>>
    /\ ret = ListValue(<<1, 2, 3>>)

\* C13: the Page Walker follows the continuation and stops only where it is
\* None: it has returned only after fetching every page up to the one without
\* a token, never one more, and unless a fetch fails or hangs it does return.
WalkStopsAtNullOnly ==
    /\ [](op \in Walkers =>
            /\ Len(tasks) <= Len(server)
            /\ \A i \in 1..(Len(tasks) - 1) :
                  ListNext(server, tasks[i].ent) = tasks[i + 1].ent
            /\ pc = "returned" =>
                  /\ ListNext(server, tasks[Len(tasks)].ent) = 0
                  /\ \A i \in 1..Len(server) : \E t \in DOMAIN tasks :
                        tasks[t].ent = i /\ tstate[t] = "ok")
    /\ [](op \in Walkers /\ pc = "walking" =>
            <>(pc \in {"returned", "raised"} \/ \E t \in DOMAIN tstate : tstate[t] = "hung"))

\* It walked three pages, the second with an empty 'items' and the third with
\* items, and returned.
WalkStopsAtNullOnlyWitness ==
    /\ op = "get_database_instances"
    /\ pc = "returned"
    /\ Len(server) = 3
    /\ server[2] = [has |-> TRUE, items |-> <<>>]
    /\ server[3].items # <<>>
    /\ Len(tasks) = 3

\* C14: a failed page fetch ends the walk: the walker raises that fetch's
\* error, returns nothing of what it had accumulated, and the failed fetch is
\* the last request it made.
WalkFailureAborts ==
    op \in Walkers =>
        /\ \A t \in Failed(tstate) : t = Len(tasks) /\ pc \in {"walking", "raised"}
        /\ pc = "raised" =>
              /\ tstate[Len(tasks)] = "failed"
              /\ err = TaskError(tasks[Len(tasks)])
        /\ pc # "returned" => ret = NoValue
        /\ pc = "returned" => Failed(tstate) = {}

\* The fetch of the third page failed after two pages with items: the walker
\* raised.
WalkFailureAbortsWitness ==
    /\ op = "get_backups"
    /\ pc = "raised"
    /\ Len(tasks) = 3
    /\ Len(results) >= 2
    /\ ret = NoValue

\* The fetch of the first page failed: the walker raised.
WalkFirstFetchFailsWitness ==
    /\ op = "get_backups"
    /\ pc = "raised"
    /\ Len(tasks) = 1

\* C15: a response without the 'items' field is no failure and contributes no
\* item: the walker and get_users raise only the error of a failed fetch,
\* get_users returns the field's items or [], the walker all pages' items.
AbsentItemsIsEmpty ==
    /\ (op \in Walkers \cup {"get_users"} /\ pc = "raised") =>
          /\ tstate[Len(tasks)] = "failed"
          /\ err = TaskError(tasks[Len(tasks)])
    /\ (op = "get_users" /\ pc = "returned") => ret = ListValue(PageItems(server[1]))
    /\ (op = "get_users" /\ pc = "returned" /\ ~server[1].has) => ret = ListValue(<<>>)
    /\ (op \in Walkers /\ pc = "returned") =>
          ret = ListValue(FirstPages(server, Len(server)))

\* get_users got a response without 'items' and returned [].
AbsentItemsIsEmptyWitness ==
    /\ op = "get_users"
    /\ pc = "returned"
    /\ ~server[1].has
    /\ ret = ListValue(<<>>)

\* The walker went past a response without 'items' and returned the items of
\* the pages around it.
WalkPastAbsentItemsWitness ==
    /\ op = "get_backups"
    /\ pc = "returned"
    /\ Len(server) = 3
    /\ ~server[2].has
    /\ server[1].items # <<>>
    /\ server[3].items # <<>>
    /\ ret = ListValue(server[1].items \o server[3].items)

\* C20: get_users makes one listing call, for the first page, and returns that
\* response's items whatever follows it; get_backups and
\* get_database_instances have fetched every page when they return.
GetUsersSingleCall ==
    /\ op = "get_users" =>
          /\ tasks = <<FirstRequest>>
          /\ Len(tstate) = 1
          /\ pc = "returned" => ret = ListValue(PageItems(server[1]))
    /\ (op \in Walkers /\ pc = "returned") => Len(tasks) = Len(server)

\* get_users returned the first page's items of a listing whose second page
\* has items too.
GetUsersSingleCallWitness ==
    /\ op = "get_users"
    /\ pc = "returned"
    /\ Len(server) >= 2
    /\ server[1].items # <<>>
    /\ server[2].items # <<>>
    /\ ret = ListValue(server[1].items)

\* A name the 'utf-8' codec can encode: one without a lone surrogate.
Encodable(name) == \A i \in DOMAIN name : ~Surrogate(name[i])

\* No name was given two identifiers.
OneIdPerName == \A p, q \in seen : p[1] = q[1] => p[2] = q[2]

\* C16 as stated: no call of get_non_provider_id fails, and a name gets the
\* same identifier at every call, whatever was hashed before.
HashTotalAndDeterministic ==
    op = "hash" =>
        /\ err = NoError
        /\ ret.kind = "sha1"
        /\ OneIdPerName

\* C16, amended: a name gets the same identifier at every call, whatever was
\* hashed before, and no call with a name that UTF-8 can encode (one without a
\* lone surrogate) fails; '.' is such a name.
HashDeterministicWhereEncodable ==
    op = "hash" =>
        /\ OneIdPerName
        /\ Encodable(hname) =>
              /\ pc = "returned"
              /\ err = NoError
              /\ ret.kind = "sha1"
              /\ <<hname, ret>> \in seen

\* Three calls, the last one of a name with a '.', have returned: two names have
\* an identifier, each its own.
HashDeterministicWhereEncodableWitness ==
    /\ op = "hash"
    /\ calls = 3
    /\ pc = "returned"
    /\ Cardinality(seen) = 2
    /\ \E i \in DOMAIN hname : hname[i] = 46
    /\ \E p \in seen : p[1] # hname /\ p[2] # ret

====
